---- MODULE Spec2Model ----
(***************************************************************************)
(* wgmesh testlab report generator (testlab/cloud/gen-report.py).          *)
(*                                                                         *)
(* The program is a single pass: load_events reads an NDJSON trace, four   *)
(* aggregators reduce the event list, generate_html renders the result.    *)
(* Events are Python dicts: here functions from field names to values, so  *)
(* an absent optional field is a name outside DOMAIN ev.                   *)
(***************************************************************************)
EXTENDS Integers, Sequences, FiniteSets, TLC

VARIABLES
    file,          \* the trace file: a sequence of lines, each a sequence of characters
    events,        \* list[dict] handed to generate_html (result of load_events)
    timeline,      \* generate_html's local: build_test_timeline(events)
    chaos,         \* generate_html's local: build_chaos_events(events)
    data_metrics,  \* generate_html's local: build_data_plane_metrics(events)
    tiers,         \* generate_html's local: build_tier_summary(events)
    html,          \* what generate_html returned (or that it raised)
    clock,         \* the wall clock read by datetime.now, in whole seconds
    runs,          \* the documents returned by the invocations so far, in order
    pc             \* position of the run: "start", "loaded", "done"

vars == <<file, events, timeline, chaos, data_metrics, tiers, html, clock, runs, pc>>

(***************************************************************************)
(* Bounds of the model.                                                    *)
(***************************************************************************)
MaxEvents == 3
MaxTs == 1
MaxRenderEvents == 2
MaxLines == 2
MaxLineLen == 2
MaxClock == 1
MaxRuns == 2
FarTs == 300

(***************************************************************************)
(* Python values.                                                          *)
(***************************************************************************)

\* dict.get(k, d)
Get(ev, k, d) == IF k \in DOMAIN ev THEN ev[k] ELSE d

\* The empty dict / nothing computed yet.
EmptyDict == <<>>

\* A JSON value in a position where the code does not fix its type: a string
\* (str), or an array (list), which Python cannot hash.
JsonStr(s) == [t |-> "str", s |-> s]
JsonList == [t |-> "list", s |-> ""]

\* float(x) of an int: the value is kept, the type becomes float.
to_float(x) == [float |-> x]

(***************************************************************************)
(* build_test_timeline                                                     *)
(***************************************************************************)

\* starts[ev["name"]] = ev
starts_store_mut(starts, ev) == starts
starts_store_first(starts, ev) ==
    IF ev.name \in DOMAIN starts THEN starts
    ELSE [n \in DOMAIN starts \cup {ev.name} |-> IF n = ev.name THEN ev ELSE starts[n]]
starts_store(starts, ev) ==
    [n \in DOMAIN starts \cup {ev.name} |-> IF n = ev.name THEN ev ELSE starts[n]]

\* The dict left by starts.pop(ev["name"], None).
starts_pop_mut(starts, name) == starts
starts_pop(starts, name) ==
    [n \in DOMAIN starts \ {name} |-> starts[n]]

\* start_ev = starts.pop(name, None); start_ts = start_ev["ts"] if start_ev else ev["ts"]
\* (a stored start event is a non-empty dict, hence truthy).
start_ts_mut(starts, ev) ==
    IF ev.name \in DOMAIN starts THEN starts[ev.name].ts ELSE 0
start_ts_of(starts, ev) ==
    IF ev.name \in DOMAIN starts THEN starts[ev.name].ts ELSE ev.ts

\* float(ev.get("duration", ev["ts"] - start_ts))
entry_duration_mut(ev, start_ts) == to_float(ev.ts - start_ts)
entry_duration(ev, start_ts) ==
    to_float(Get(ev, "duration", ev.ts - start_ts))

\* The dict appended to the timeline for a test_end event.
timeline_entry(ev, start_ts) ==
    [id        |-> ev.name,
     test_name |-> Get(ev, "name", ""),
     tier      |-> Get(ev, "tier", "?"),
     start     |-> start_ts,
     end       |-> ev.ts,
     duration  |-> entry_duration(ev, start_ts),
     result    |-> Get(ev, "result", JsonStr("?"))]

\* One iteration of the for loop: the pair <<starts, timeline>> after ev.
timeline_step_mut(st, ev) ==
    IF ev.type = "test_start"
    THEN <<starts_store(st[1], ev), st[2]>>
    ELSE IF ev.type = "test_end" /\ ~(\E i \in 1..Len(st[2]) : st[2][i].id = ev.name)
    THEN <<starts_pop(st[1], ev.name),
           Append(st[2], timeline_entry(ev, start_ts_of(st[1], ev)))>>
    ELSE st
timeline_step(st, ev) ==
    IF ev.type = "test_start"
    THEN <<starts_store(st[1], ev), st[2]>>
    ELSE IF ev.type = "test_end"
    THEN <<starts_pop(st[1], ev.name),
           Append(st[2], timeline_entry(ev, start_ts_of(st[1], ev)))>>
    ELSE st

RECURSIVE timeline_loop(_, _, _)
timeline_loop(evs, i, st) ==
    IF i > Len(evs) THEN st
    ELSE timeline_loop(evs, i + 1, timeline_step(st, evs[i]))

build_test_timeline(evs) == timeline_loop(evs, 1, <<EmptyDict, <<>>>>)[2]

(***************************************************************************)
(* build_chaos_events, build_data_plane_metrics, build_tier_summary        *)
(***************************************************************************)

\* The dict appended for a chaos_apply / chaos_clear event.
chaos_entry(ev) ==
    [ts         |-> ev.ts,
     type       |-> ev.type,
     node       |-> ev.name,
     chaos_type |-> Get(ev, "type_param", Get(ev, "type", "")),
     params     |-> Get(ev, "params", ""),
     tier       |-> Get(ev, "tier", "?")]

RECURSIVE build_chaos_events(_)
build_chaos_events(evs) ==
    IF evs = <<>> THEN <<>>
    ELSE LET rest == build_chaos_events(SubSeq(evs, 1, Len(evs) - 1))
             ev   == evs[Len(evs)]
         IN IF ev.type \in {"chaos_apply", "chaos_clear"}
            THEN Append(rest, chaos_entry(ev))
            ELSE rest

\* The event types of the model's alphabet that start with "data_".
DataPrefixed == {"data_transfer", "data_iperf", "data_"}

\* ev["type"].startswith("data_")
is_data_type(t) == t \in DataPrefixed

\* {"ts":.., "type":.., "name":.., "tier": ev.get("tier","?"), **others}
metric_entry_mut(ev) ==
    [k \in {"ts", "type", "name", "tier"} |->
        IF k = "tier" THEN Get(ev, "tier", "?") ELSE ev[k]]
metric_entry(ev) ==
    [k \in {"ts", "type", "name", "tier"}
           \cup {f \in DOMAIN ev : f \notin {"ts", "type", "name", "tier"}} |->
        IF k = "tier" THEN Get(ev, "tier", "?") ELSE ev[k]]

RECURSIVE build_data_plane_metrics(_)
build_data_plane_metrics(evs) ==
    IF evs = <<>> THEN <<>>
    ELSE LET rest == build_data_plane_metrics(SubSeq(evs, 1, Len(evs) - 1))
             ev   == evs[Len(evs)]
         IN IF is_data_type(ev.type)
            THEN Append(rest, metric_entry(ev))
            ELSE rest

\* The dict appended to tiers for a tier_end event.
tier_entry(starts, ev) ==
    LET start_ts == IF ev.name \in DOMAIN starts THEN starts[ev.name].ts ELSE ev.ts
    IN [name     |-> ev.name,
        start    |-> start_ts,
        end      |-> ev.ts,
        duration |-> ev.ts - start_ts,
        tests    |-> IF ev.name \in DOMAIN starts
                     THEN Get(starts[ev.name], "tests", "?")
                     ELSE "?"]

\* One iteration of the for loop: the pair <<starts, tiers>> after ev.
tier_step_mut(st, ev) ==
    IF ev.type = "tier_start"
    THEN <<starts_store(st[1], ev), st[2]>>
    ELSE IF ev.type = "tier_end"
    THEN <<st[1], Append(st[2], tier_entry(st[1], ev))>>
    ELSE st
tier_step(st, ev) ==
    IF ev.type = "tier_start"
    THEN <<starts_store(st[1], ev), st[2]>>
    ELSE IF ev.type = "tier_end"
    THEN <<starts_pop(st[1], ev.name), Append(st[2], tier_entry(st[1], ev))>>
    ELSE st

RECURSIVE tier_loop(_, _, _)
tier_loop(evs, i, st) ==
    IF i > Len(evs) THEN st
    ELSE tier_loop(evs, i + 1, tier_step(st, evs[i]))

build_tier_summary(evs) == tier_loop(evs, 1, <<EmptyDict, <<>>>>)[2]

(***************************************************************************)
(* format_duration                                                         *)
(***************************************************************************)

\* The text is kept as its parts: "<s>s", "<m>m<ss>s" or "<h>h<mm>m<ss>s".
\* seconds is the numeric value (int or integral float print alike with .0f).
format_duration(seconds) ==
    IF seconds < 60
    THEN [form |-> "s", h |-> 0, m |-> 0, s |-> seconds]
    ELSE LET m == seconds \div 60
             s == seconds % 60
         IN IF m < 60
            THEN [form |-> "ms", h |-> 0, m |-> m, s |-> s]
            ELSE [form |-> "hms", h |-> m \div 60, m |-> m % 60, s |-> s]

(***************************************************************************)
(* generate_html                                                           *)
(***************************************************************************)

Min(S) == CHOOSE x \in S : \A y \in S : x <= y
Max(S) == CHOOSE x \in S : \A y \in S : x >= y

\* dict lookup hashes its key: colors.get(result, ..) raises TypeError for a list.
Hashable(v) == v.t # "list"

\* colors.get(t["result"], "#6b7280")
color_of(result) ==
    CASE result = JsonStr("PASS") -> "#22c55e"
      [] result = JsonStr("FAIL") -> "#ef4444"
      [] result = JsonStr("SKIP") -> "#eab308"
      [] OTHER -> "#6b7280"

\* t_range = max(t_max - t_min, 1)
t_range_of_mut(tl) ==
    LET all_times == {tl[i].start : i \in 1..Len(tl)} \cup {tl[i].end : i \in 1..Len(tl)}
    IN Max(all_times) - Min(all_times)
t_range_of(tl) ==
    LET all_times == {tl[i].start : i \in 1..Len(tl)} \cup {tl[i].end : i \in 1..Len(tl)}
    IN Max({Max(all_times) - Min(all_times), 1})

t_min_of(tl) ==
    Min({tl[i].start : i \in 1..Len(tl)} \cup {tl[i].end : i \in 1..Len(tl)})

\* One Gantt row. Percentages are kept exact, as the fraction num/den:
\* left = (start - t_min) / t_range * 100, width = max((end - start) / t_range * 100, 0.5).
gantt_bar(t, t_min, t_range) ==
    [label    |-> t.id,
     left     |-> [num |-> (t.start - t_min) * 100, den |-> t_range],
     width    |-> IF (t.end - t.start) * 200 >= t_range
                  THEN [num |-> (t.end - t.start) * 100, den |-> t_range]
                  ELSE [num |-> 1, den |-> 2],
     color    |-> color_of(t.result),
     duration |-> format_duration(t.duration.float),
     result   |-> t.result]

\* One row of the Test Results table.
test_row(t) ==
    [id       |-> t.id,
     tier     |-> t.tier,
     badge    |-> [color |-> color_of(t.result), text |-> t.result],
     duration |-> format_duration(t.duration.float)]

\* One row of the Data Plane Metrics table. A cell that picks among fields keeps
\* the name of the field it shows beside the value.
dp_cell(m, f) == [field |-> f, value |-> IF f = "-" THEN "-" ELSE m[f]]

\* m.get('result', m.get('mbps', '-')) and
\* m.get('size_mb', m.get('payload', m.get('duration', '-')))
dp_row(m) ==
    [type   |-> m.type,
     name   |-> m.name,
     tier   |-> m.tier,
     result |-> dp_cell(m, IF "result" \in DOMAIN m THEN "result"
                           ELSE IF "mbps" \in DOMAIN m THEN "mbps" ELSE "-"),
     detail |-> dp_cell(m, IF "size_mb" \in DOMAIN m THEN "size_mb"
                           ELSE IF "payload" \in DOMAIN m THEN "payload"
                           ELSE IF "duration" \in DOMAIN m THEN "duration" ELSE "-")]

tier_row(t) ==
    [name |-> t.name, tests |-> t.tests, duration |-> format_duration(t.duration)]

chaos_row(c, t_min) ==
    [rel_time |-> format_duration(c.ts - t_min),
     tier     |-> c.tier,
     type     |-> c.type,
     node     |-> c.node,
     params   |-> c.params]

\* A section of the document: its rows, or its placeholder when there are none.
section(rows, placeholder) ==
    IF rows # <<>> THEN [rows |-> rows, empty |-> ""]
    ELSE [rows |-> <<>>, empty |-> placeholder]

\* sum(1 for t in timeline if t["result"] == r)
count_result_mut(tl, r) ==
    Cardinality({i \in 1..Len(tl) : tl[i].result # JsonStr("?")})
count_result(tl, r) ==
    Cardinality({i \in 1..Len(tl) : tl[i].result = JsonStr(r)})

\* if not timeline: return "<html><body><h1>No test events found</h1></body></html>"
Fallback == [kind |-> "fallback", h1 |-> "No test events found"]

is_empty(tl) == tl = <<>>

\* The stamp of line 212: datetime.now(timezone.utc) to the second.
generated_stamp(now) == now

\* The full document, for a non-empty timeline whose results are all hashable.
report(evs, tl, ch, dm, ti, now) ==
    LET t_min   == t_min_of(tl)
        t_range == t_range_of(tl)
    IN [kind           |-> "report",
        generated      |-> generated_stamp(now),
        total          |-> Len(tl),
        passed         |-> count_result(tl, "PASS"),
        failed         |-> count_result(tl, "FAIL"),
        skipped        |-> count_result(tl, "SKIP"),
        total_duration |-> format_duration(t_range),
        gantt          |-> section([i \in 1..Len(tl) |-> gantt_bar(tl[i], t_min, t_range)],
                                   "No timing data"),
        tier_summary   |-> section([i \in 1..Len(ti) |-> tier_row(ti[i])], "No tier data"),
        test_results   |-> [i \in 1..Len(tl) |-> test_row(tl[i])],
        data_plane     |-> section([i \in 1..Len(dm) |-> dp_row(dm[i])],
                                   "No data plane events"),
        chaos_count    |-> Len(ch),
        chaos_log      |-> section([i \in 1..Len(ch) |-> chaos_row(ch[i], t_min)],
                                   "No chaos events"),
        trace_events   |-> Len(evs)]

\* generate_html(events), with the clock reading it takes as a parameter.
generate_html_mut(evs, now) ==
    LET tl == build_test_timeline(evs)
        ch == build_chaos_events(evs)
        dm == build_data_plane_metrics(evs)
        ti == build_tier_summary(evs)
    IN IF is_empty(tl) THEN [kind |-> "raise", error |-> "ValueError"]
       ELSE IF \E i \in 1..Len(tl) : ~Hashable(tl[i].result)
       THEN [kind |-> "raise", error |-> "TypeError"]
       ELSE report(evs, tl, ch, dm, ti, now)
generate_html(evs, now) ==
    LET tl == build_test_timeline(evs)
        ch == build_chaos_events(evs)
        dm == build_data_plane_metrics(evs)
        ti == build_tier_summary(evs)
    IN IF is_empty(tl) THEN Fallback
       ELSE IF \E i \in 1..Len(tl) : ~Hashable(tl[i].result)
       THEN [kind |-> "raise", error |-> "TypeError"]
       ELSE report(evs, tl, ch, dm, ti, now)

(***************************************************************************)
(* load_events                                                             *)
(***************************************************************************)

\* The characters a line is made of.
Chars == {" ", "{", "}", "7"}

IsSpace(c) == c = " "

\* str.strip(): the line without its leading and trailing whitespace.
RECURSIVE lstrip(_)
lstrip(s) == IF s # <<>> /\ IsSpace(Head(s)) THEN lstrip(Tail(s)) ELSE s

RECURSIVE rstrip(_)
rstrip(s) ==
    IF s # <<>> /\ IsSpace(s[Len(s)]) THEN rstrip(SubSeq(s, 1, Len(s) - 1)) ELSE s

strip(s) == rstrip(lstrip(s))

\* The number written by a run of digits.
RECURSIVE digits_value(_)
digits_value(s) ==
    IF s = <<>> THEN 0 ELSE 10 * digits_value(SubSeq(s, 1, Len(s) - 1)) + 7

\* json.loads over this alphabet: a document is a number (a run of 7s) or an
\* empty object ({, whitespace, }), with whitespace allowed around it; anything
\* else raises JSONDecodeError.
json_loads(s) ==
    LET doc == strip(s)
    IN IF doc # <<>> /\ \A i \in 1..Len(doc) : doc[i] = "7"
       THEN [ok |-> TRUE, value |-> [t |-> "int", v |-> digits_value(doc)]]
       ELSE IF /\ Len(doc) >= 2
               /\ doc[1] = "{"
               /\ doc[Len(doc)] = "}"
               /\ \A i \in 2..(Len(doc) - 1) : IsSpace(doc[i])
       THEN [ok |-> TRUE, value |-> [t |-> "dict", v |-> 0]]
       ELSE [ok |-> FALSE, value |-> [t |-> "JSONDecodeError", v |-> 0]]

\* One iteration of the for loop over the file's lines: events after the line.
load_step(evs, raw) ==
    LET line == strip(raw)
    IN IF line = <<>> THEN evs
       ELSE IF json_loads(line).ok THEN Append(evs, json_loads(line).value)
       ELSE evs

RECURSIVE load_loop_mut(_, _, _)
load_loop_mut(f, i, evs) ==
    IF i > Len(f) THEN evs
    ELSE IF strip(f[i]) # <<>> /\ ~json_loads(strip(f[i])).ok THEN evs
    ELSE load_loop_mut(f, i + 1, load_step(evs, f[i]))

RECURSIVE load_loop(_, _, _)
load_loop(f, i, evs) ==
    IF i > Len(f) THEN evs ELSE load_loop(f, i + 1, load_step(evs, f[i]))

load_events(f) == load_loop(f, 1, <<>>)

(***************************************************************************)
(* Inputs: the traces each specification starts from.                      *)
(***************************************************************************)

SeqsUpTo(S, n) == UNION {[1..k -> S] : k \in 0..n}

Names == {"A", "B"}
Timestamps == 0..MaxTs

\* Required fields only.
Ev(type, name, ts) == [type |-> type, name |-> name, ts |-> ts]

\* test_start / test_end events: an end event carries either a result and no
\* duration, or a duration (one that no timestamp difference of the model
\* equals) and no result.
TimelineEvents ==
    {Ev("test_start", n, t) : n \in Names, t \in Timestamps}
    \cup {Ev("test_end", n, t) @@ [result |-> JsonStr("PASS")] :
             n \in Names, t \in Timestamps}
    \cup {Ev("test_end", n, t) @@ [duration |-> 7] : n \in Names, t \in Timestamps}

\* The values a result field takes: the three known ones, an unknown string,
\* and a JSON array.
Results == {JsonStr("PASS"), JsonStr("FAIL"), JsonStr("SKIP"), JsonStr("ERROR"), JsonList}

\* Events of every kind the renderer shows, for one test name.
RenderEvents ==
    {Ev("test_start", "A", t) : t \in Timestamps}
    \cup {Ev("test_end", "A", t) : t \in Timestamps}
    \cup {Ev("test_end", "A", t) @@ [result |-> r] : t \in Timestamps, r \in Results}
    \cup {Ev("test_end", "A", t) @@ [result |-> JsonStr("PASS"), tier |-> "1"] :
             t \in Timestamps}
    \cup {Ev(ty, "n1", t) : ty \in {"chaos_apply", "data_transfer", "tier_end"},
                             t \in Timestamps}

\* The extra fields a data-plane event carries: none, one, or five.
Extras ==
    {EmptyDict,
     [mbps |-> 940],
     [result |-> JsonStr("PASS"), mbps |-> 940, size_mb |-> 10,
      payload |-> 1400, duration |-> 3]}

\* data_* events of several shapes, and events whose type is no data_ type.
DataEvents ==
    {Ev(ty, "n1-n2", t) @@ x : ty \in {"data_transfer", "data_"},
                                t \in Timestamps, x \in Extras}
    \cup {Ev(ty, "n1-n2", t) @@ x @@ [tier |-> "2"] :
             ty \in {"data_transfer", "data_"}, t \in Timestamps, x \in Extras}
    \cup {Ev(ty, "n1-n2", t) @@ [mbps |-> 940] :
             ty \in {"database", "test_end", "chaos_clear"}, t \in Timestamps}

\* A small trace for repeated invocations.
RunsEvents ==
    {Ev("test_start", "A", t) : t \in Timestamps}
    \cup {Ev("test_end", "A", t) @@ [result |-> JsonStr("PASS")] : t \in Timestamps}
    \cup {Ev("chaos_apply", "n1", t) : t \in Timestamps}

\* tier_start / tier_end events of two tiers: a start with or without its
\* tests field, an end with or without a duration field.
TierEvents ==
    {Ev("tier_start", n, t) : n \in Names, t \in Timestamps}
    \cup {Ev("tier_start", n, t) @@ [tests |-> "3"] : n \in Names, t \in Timestamps}
    \cup {Ev("tier_end", n, t) : n \in Names, t \in Timestamps}
    \cup {Ev("tier_end", n, t) @@ [duration |-> 7] : n \in Names, t \in Timestamps}

\* test_start / test_end events of one test, at timestamps next to each other
\* and at one far away, so that a duration can be a small part of the window.
GanttEvents ==
    {Ev(ty, "A", t) : ty \in {"test_start", "test_end"}, t \in Timestamps \cup {FarTs}}

Lines == SeqsUpTo(Chars, MaxLineLen)

(***************************************************************************)
(* The run: main() loads the trace, then renders it.                       *)
(***************************************************************************)

\* Nothing loaded or computed yet.
InitWith(f, evs, p) ==
    /\ file = f
    /\ events = evs
    /\ timeline = <<>>
    /\ chaos = <<>>
    /\ data_metrics = <<>>
    /\ tiers = <<>>
    /\ html = [kind |-> "none"]
    /\ clock = 0
    /\ runs = <<>>
    /\ pc = p

Init == \E evs \in SeqsUpTo(TimelineEvents, MaxEvents) : InitWith(<<>>, evs, "loaded")
InitRender == \E evs \in SeqsUpTo(RenderEvents, MaxRenderEvents) : InitWith(<<>>, evs, "loaded")
InitData == \E evs \in SeqsUpTo(DataEvents, MaxRenderEvents) : InitWith(<<>>, evs, "loaded")
InitRuns == \E evs \in SeqsUpTo(RunsEvents, MaxRenderEvents) : InitWith(<<>>, evs, "loaded")
InitTier == \E evs \in SeqsUpTo(TierEvents, MaxEvents) : InitWith(<<>>, evs, "loaded")
InitGantt == \E evs \in SeqsUpTo(GanttEvents, MaxEvents) : InitWith(<<>>, evs, "loaded")
InitLoad == \E f \in SeqsUpTo(Lines, MaxLines) : InitWith(f, <<>>, "start")

\* events = load_events(trace_path)
LoadEvents ==
    /\ pc = "start"
    /\ events' = load_events(file)
    /\ pc' = "loaded"
    /\ UNCHANGED <<file, timeline, chaos, data_metrics, tiers, html, clock, runs>>

\* html = generate_html(events)
GenerateHtml ==
    /\ pc = "loaded"
    /\ Len(runs) < MaxRuns
    /\ timeline' = build_test_timeline(events)
    /\ chaos' = build_chaos_events(events)
    /\ data_metrics' = build_data_plane_metrics(events)
    /\ tiers' = build_tier_summary(events)
    /\ html' = generate_html(events, clock)
    /\ runs' = Append(runs, html')
    /\ pc' = "done"
    /\ UNCHANGED <<file, events, clock>>

\* The program is invoked again on the same trace: a new process, whose event
\* list is loaded afresh and is the same list.
Invoke_mut ==
    /\ pc = "done"
    /\ events' = events \o events
    /\ pc' = "loaded"
    /\ UNCHANGED <<file, timeline, chaos, data_metrics, tiers, html, clock, runs>>
Invoke ==
    /\ pc = "done"
    /\ events' = events
    /\ pc' = "loaded"
    /\ UNCHANGED <<file, timeline, chaos, data_metrics, tiers, html, clock, runs>>

\* A second passes on the wall clock.
Tick ==
    /\ clock < MaxClock
    /\ clock' = clock + 1
    /\ UNCHANGED <<file, events, timeline, chaos, data_metrics, tiers, html, runs, pc>>

Next == GenerateHtml
NextRuns == GenerateHtml \/ Invoke \/ Tick
NextLoad == LoadEvents

Spec == Init /\ [][Next]_vars
SpecRender == InitRender /\ [][Next]_vars
SpecData == InitData /\ [][Next]_vars
SpecRuns == InitRuns /\ [][NextRuns]_vars
SpecLoad == InitLoad /\ [][NextLoad]_vars
SpecTier == InitTier /\ [][Next]_vars
SpecGantt == InitGantt /\ [][Next]_vars

(***************************************************************************)
(* Vocabulary of the properties, stated over the event list itself.        *)
(***************************************************************************)

\* Positions of the events of a type.
Positions(evs, type) == {i \in 1..Len(evs) : evs[i].type = type}

\* The timeline entry of the test_end event at position i is the k-th entry,
\* k the number of test_end events up to i.
EntryOf(evs, i) == Cardinality({j \in Positions(evs, "test_end") : j <= i})

\* The names that have at least one test_end event.
EndedNames(evs) == {evs[i].name : i \in Positions(evs, "test_end")}

\* Positions of the test_start events still pending for the end event at i:
\* same name, earlier, and no test_end of that name in between.
PendingStarts(evs, i) ==
    {j \in Positions(evs, "test_start") :
        /\ j < i
        /\ evs[j].name = evs[i].name
        /\ ~\E k \in Positions(evs, "test_end") :
              j < k /\ k < i /\ evs[k].name = evs[i].name}

\* The start timestamp the end event at i is paired with: that of the latest
\* pending start, or its own when none is pending.
PairedStartTs(evs, i) ==
    IF PendingStarts(evs, i) = {} THEN evs[i].ts
    ELSE evs[Max(PendingStarts(evs, i))].ts

Done == pc = "done"

(***************************************************************************)
(* C1                                                                      *)
(***************************************************************************)

\* C1 as stated: the number of timeline entries equals the number of distinct
\* test names that have at least one test_end event.
C1_EntriesPerDistinctName ==
    Done => Len(timeline) = Cardinality(EndedNames(events))

\* C1, amended: the number of timeline entries equals the number of test_end
\* events (one entry per test_end, in event order, carrying that event's
\* name); it equals the number of distinct ended names exactly when no name
\* has several test_end events.
C1_EntryPerTestEnd ==
    Done =>
        /\ Len(timeline) = Cardinality(Positions(events, "test_end"))
        /\ \A i \in Positions(events, "test_end") :
              timeline[EntryOf(events, i)].id = events[i].name
        /\ (Len(timeline) = Cardinality(EndedNames(events))
              <=> \A i, j \in Positions(events, "test_end") :
                      events[i].name = events[j].name => i = j)

\* A name with two test_end events has two entries.
C1_Witness ==
    /\ Done
    /\ \E i, j \in Positions(events, "test_end") : i < j /\ events[i].name = events[j].name
    /\ Len(timeline) > Cardinality(EndedNames(events))

(***************************************************************************)
(* C2                                                                      *)
(***************************************************************************)

\* The traces of C2 for a name: exactly one test_start at s, exactly one
\* test_end at e, the end without a duration field.
OneStartOneEnd(evs, n, s, e) ==
    /\ {i \in Positions(evs, "test_start") : evs[i].name = n} = {s}
    /\ {i \in Positions(evs, "test_end") : evs[i].name = n} = {e}
    /\ "duration" \notin DOMAIN evs[e]

\* The entry C2 expects for the end event at e paired with the start at s.
PairedEntry(evs, s, e) ==
    LET t == timeline[EntryOf(evs, e)]
    IN /\ t.id = evs[e].name
       /\ t.start = evs[s].ts
       /\ t.end = evs[e].ts
       /\ t.duration = to_float(evs[e].ts - evs[s].ts)
       /\ t.result = Get(evs[e], "result", JsonStr("?"))

\* C2 as stated: with one start and one end of a name, the entry is the paired
\* one whichever of the two events comes first.
C2_OrderInsensitive ==
    Done => \A n \in Names : \A s, e \in 1..Len(events) :
        OneStartOneEnd(events, n, s, e) => PairedEntry(events, s, e)

\* C2, amended: the entry is the paired one when the test_start comes before
\* the test_end; when the test_end comes first it is not paired: its entry has
\* start = end = the end's ts and duration 0 (and its result).
C2_PairedWhenStartFirst ==
    Done => \A n \in Names : \A s, e \in 1..Len(events) :
        OneStartOneEnd(events, n, s, e) =>
            /\ Cardinality({k \in 1..Len(timeline) : timeline[k].id = n}) = 1
            /\ s < e => PairedEntry(events, s, e)
            /\ e < s => LET t == timeline[EntryOf(events, e)]
                        IN /\ t.id = n
                           /\ t.start = events[e].ts
                           /\ t.end = events[e].ts
                           /\ t.duration = to_float(0)
                           /\ t.result = Get(events[e], "result", JsonStr("?"))

\* The start-first order with different timestamps: a paired entry with a
\* result and a non-zero duration.
C2_Witness ==
    /\ Done
    /\ \E s, e \in 1..Len(events) :
          /\ OneStartOneEnd(events, "A", s, e)
          /\ s < e
          /\ events[s].ts # events[e].ts
          /\ "result" \in DOMAIN events[e]
          /\ timeline[EntryOf(events, e)].duration # to_float(0)

\* The end-first order with different timestamps.
C2_WitnessEndFirst ==
    /\ Done
    /\ \E s, e \in 1..Len(events) :
          /\ OneStartOneEnd(events, "A", s, e)
          /\ e < s
          /\ events[s].ts # events[e].ts

(***************************************************************************)
(* C3                                                                      *)
(***************************************************************************)

\* C3 as stated: a test_end with no pending test_start yields an entry whose
\* start and end are the end event's ts and whose duration is 0.
C3_UnmatchedEndZeroDuration ==
    Done => \A i \in Positions(events, "test_end") :
        PendingStarts(events, i) = {} =>
            LET t == timeline[EntryOf(events, i)]
            IN /\ t.start = events[i].ts
               /\ t.end = events[i].ts
               /\ t.duration = to_float(0)

\* C3, amended: a test_end with no pending test_start yields an entry whose
\* start and end are the end event's ts; its duration is 0 when the end event
\* has no duration field, and the value of that field when it has one.
C3_UnmatchedEndOwnTs ==
    Done => \A i \in Positions(events, "test_end") :
        PendingStarts(events, i) = {} =>
            LET t == timeline[EntryOf(events, i)]
            IN /\ t.start = events[i].ts
               /\ t.end = events[i].ts
               /\ "duration" \notin DOMAIN events[i] => t.duration = to_float(0)
               /\ "duration" \in DOMAIN events[i] =>
                      t.duration = to_float(events[i].duration)

\* An unmatched end with a non-zero ts, after a start of the other name and an
\* earlier consumed start of its own name.
C3_Witness ==
    /\ Done
    /\ \E i \in Positions(events, "test_end") :
          /\ PendingStarts(events, i) = {}
          /\ events[i].ts # 0
          /\ "duration" \notin DOMAIN events[i]
          /\ \E j \in Positions(events, "test_start") : j < i
          /\ timeline[EntryOf(events, i)].start = events[i].ts

(***************************************************************************)
(* C4                                                                      *)
(***************************************************************************)

\* C4: every entry's duration is its end event's duration field when present,
\* else end ts minus the paired start ts; start and end are the paired start
\* ts and the end event's ts whether or not the field is there.
C4_DurationFieldWins ==
    Done => \A i \in Positions(events, "test_end") :
        LET t == timeline[EntryOf(events, i)]
        IN /\ t.start = PairedStartTs(events, i)
           /\ t.end = events[i].ts
           /\ "duration" \in DOMAIN events[i] =>
                  t.duration = to_float(events[i].duration)
           /\ "duration" \notin DOMAIN events[i] =>
                  t.duration = to_float(events[i].ts - PairedStartTs(events, i))

\* A paired end whose duration field differs from its timestamp difference.
C4_Witness ==
    /\ Done
    /\ \E i \in Positions(events, "test_end") :
          /\ PendingStarts(events, i) # {}
          /\ "duration" \in DOMAIN events[i]
          /\ events[i].duration # events[i].ts - PairedStartTs(events, i)
          /\ events[i].ts # PairedStartTs(events, i)
          /\ timeline[EntryOf(events, i)].duration = to_float(events[i].duration)

(***************************************************************************)
(* C5                                                                      *)
(***************************************************************************)

\* C5: for an event list with no test_end event (the empty list, or one with
\* only test_start, chaos, data_* or tier events) generate_html returns the
\* fallback document "No test events found" and nothing else of the events.
C5_FallbackWhenNoTestEnd ==
    Done =>
        (Positions(events, "test_end") = {} =>
            /\ timeline = <<>>
            /\ html = [kind |-> "fallback", h1 |-> "No test events found"])

\* A list with chaos and data events but no test_end got the fallback.
C5_Witness ==
    /\ Done
    /\ Positions(events, "chaos_apply") # {}
    /\ Positions(events, "data_transfer") # {}
    /\ Positions(events, "test_end") = {}
    /\ chaos # <<>>
    /\ html.kind = "fallback"

(***************************************************************************)
(* C6                                                                      *)
(***************************************************************************)

\* The number of test_end events whose result field is the string r.
EndsWithResult(evs, r) ==
    Cardinality({i \in Positions(evs, "test_end") :
                    "result" \in DOMAIN evs[i] /\ evs[i].result = JsonStr(r)})

\* C6: a rendered report has one Gantt bar and one result row per timeline
\* entry (in timeline order), Total Tests is the number of entries, and
\* Passed / Failed / Skipped count the entries with result PASS / FAIL / SKIP,
\* so their sum is at most the total, with equality exactly when no entry has
\* another result.
C6_OneBarOneRowPerEntry ==
    (Done /\ html.kind = "report") =>
        /\ timeline # <<>>
        /\ Len(html.gantt.rows) = Len(timeline)
        /\ Len(html.test_results) = Len(timeline)
        /\ \A k \in 1..Len(timeline) :
              /\ html.gantt.rows[k].label = timeline[k].id
              /\ html.test_results[k].id = timeline[k].id
              /\ html.test_results[k].badge.text = timeline[k].result
        /\ html.total = Len(timeline)
        /\ html.total = Cardinality(Positions(events, "test_end"))
        /\ html.passed = EndsWithResult(events, "PASS")
        /\ html.failed = EndsWithResult(events, "FAIL")
        /\ html.skipped = EndsWithResult(events, "SKIP")
        /\ html.passed + html.failed + html.skipped <= html.total
        /\ (html.passed + html.failed + html.skipped = html.total
              <=> \A k \in 1..Len(timeline) :
                      timeline[k].result \in {JsonStr("PASS"), JsonStr("FAIL"), JsonStr("SKIP")})

\* A report of two entries, one passed and one with an unknown result.
C6_Witness ==
    /\ Done
    /\ html.kind = "report"
    /\ html.total = 2
    /\ html.passed = 1
    /\ html.failed + html.skipped = 0
    /\ Len(html.gantt.rows) = 2

(***************************************************************************)
(* C7                                                                      *)
(***************************************************************************)

Loaded == pc = "loaded"

\* A blank line: empty or whitespace only.
IsBlank(line) == \A i \in 1..Len(line) : line[i] = " "

\* The lines load_events keeps: not blank, and json.loads accepts them.
KeptLines(f) == {i \in 1..Len(f) : ~IsBlank(f[i]) /\ json_loads(f[i]).ok}

\* The lines that are not blank and that json.loads rejects.
CorruptLines(f) == {i \in 1..Len(f) : ~IsBlank(f[i]) /\ ~json_loads(f[i]).ok}

\* C7: load_events returns the parsed values of the non-blank lines that
\* parse, in file order; blank and corrupt lines are dropped and change
\* nothing else, so the count is the non-blank lines minus the corrupt ones.
C7_LoadKeepsParsedLinesInOrder ==
    Loaded =>
        /\ Len(events) = Cardinality(KeptLines(file))
        /\ Len(events) = Cardinality({i \in 1..Len(file) : ~IsBlank(file[i])})
                           - Cardinality(CorruptLines(file))
        /\ \A i \in KeptLines(file) :
              events[Cardinality({j \in KeptLines(file) : j <= i})]
                  = json_loads(file[i]).value

\* A corrupt line first, then a valid one: the valid one is loaded.
C7_Witness ==
    /\ Loaded
    /\ Len(file) = 2
    /\ 1 \in CorruptLines(file)
    /\ 2 \in KeptLines(file)
    /\ Len(events) = 1

(***************************************************************************)
(* C8                                                                      *)
(***************************************************************************)

\* Positions of the events whose type starts with "data_".
DataPositions(evs) == {i \in 1..Len(evs) : evs[i].type \in DataPrefixed}

\* C8: build_data_plane_metrics emits one record per data_ event, in event
\* order, holding every field of the event unchanged and tier "?" when the
\* event has none; other events give no record; nothing raises, and the
\* report has one data-plane row per record.
C8_DataEventsVerbatim ==
    Done =>
        /\ Len(data_metrics) = Cardinality(DataPositions(events))
        /\ \A i \in DataPositions(events) :
              LET m == data_metrics[Cardinality({j \in DataPositions(events) : j <= i})]
              IN /\ DOMAIN m = DOMAIN events[i] \cup {"tier"}
                 /\ \A f \in DOMAIN events[i] : m[f] = events[i][f]
                 /\ "tier" \notin DOMAIN events[i] => m.tier = "?"
        /\ html.kind # "raise"
        /\ html.kind = "report" => Len(html.data_plane.rows) = Len(data_metrics)

\* A data_ event with five extra fields and one with none, beside an event of
\* another type that carries an extra field.
C8_Witness ==
    /\ Done
    /\ \E i \in DataPositions(events) :
          Cardinality(DOMAIN events[i] \ {"ts", "type", "name", "tier"}) = 5
    /\ \E i \in 1..Len(events) : i \notin DataPositions(events)
    /\ Len(data_metrics) = 1
    /\ Cardinality(DOMAIN data_metrics[1]) = 9

(***************************************************************************)
(* C9                                                                      *)
(***************************************************************************)

Unstamped(d) == IF d.kind = "report" THEN [d EXCEPT !.generated = 0] ELSE d

KnownResults == {JsonStr("PASS"), JsonStr("FAIL"), JsonStr("SKIP")}

\* The defaults and the neutral rendering C10 describes, for a run that
\* returned a document.
C10_Defaults ==
    /\ \A i \in Positions(events, "test_end") :
          LET t == timeline[EntryOf(events, i)]
          IN /\ "tier" \notin DOMAIN events[i] => t.tier = "?"
             /\ "result" \notin DOMAIN events[i] => t.result = JsonStr("?")
             /\ "duration" \notin DOMAIN events[i] =>
                    t.duration = to_float(events[i].ts - PairedStartTs(events, i))
    /\ \A i \in Positions(events, "chaos_apply") \cup Positions(events, "chaos_clear") :
          LET c == chaos[Cardinality({j \in Positions(events, "chaos_apply")
                                            \cup Positions(events, "chaos_clear") : j <= i})]
          IN /\ "tier" \notin DOMAIN events[i] => c.tier = "?"
             /\ "params" \notin DOMAIN events[i] => c.params = ""
    /\ \A i \in Positions(events, "tier_end") :
          (\A j \in Positions(events, "tier_start") : "tests" \notin DOMAIN events[j])
              => tiers[Cardinality({j \in Positions(events, "tier_end") : j <= i})].tests = "?"
    /\ html.kind = "report" =>
          /\ \A k \in 1..Len(timeline) :
                timeline[k].result \notin KnownResults =>
                    /\ html.gantt.rows[k].color = "#6b7280"
                    /\ html.test_results[k].badge.color = "#6b7280"
          /\ html.passed + html.failed + html.skipped
                = Cardinality({k \in 1..Len(timeline) : timeline[k].result \in KnownResults})

\* C10: with type, name and ts on every event, generate_html never raises,
\* whatever optional field is absent and whatever value result has; absent
\* tier and result become "?", an absent duration is computed, and a result
\* outside PASS/FAIL/SKIP is gray and counted in no counter.
C10_NeverRaises ==
    Done => (html.kind # "raise" /\ C10_Defaults)

\* What does hold: the same, for the runs whose results are all strings.
C10_NoRaiseForStringResults ==
    Done =>
        ((\A i \in Positions(events, "test_end") :
              Get(events[i], "result", JsonStr("?")).t = "str")
          => (html.kind # "raise" /\ C10_Defaults))

(***************************************************************************)
(* C11                                                                     *)
(***************************************************************************)

\* C11: when several test_start events of a name are pending at a test_end of
\* that name (none of them separated from it by another test_end of the
\* name), the entry of that test_end starts at the ts of the last of them, and
\* the earlier starts give no entry: the timeline holds the entries of the
\* test_end events and nothing else.
C11_LastStartWins ==
    Done =>
        /\ \A i \in Positions(events, "test_end") :
              \A j, k \in PendingStarts(events, i) :
                  (j < k /\ \A l \in PendingStarts(events, i) : l <= k)
                      => timeline[EntryOf(events, i)].start = events[k].ts
        /\ Len(timeline) = Cardinality(Positions(events, "test_end"))

\* Two pending starts of a name with different ts, then its end: the entry
\* starts at the second start's ts.
C11_Witness ==
    /\ Done
    /\ \E i \in Positions(events, "test_end") :
          \E j, k \in PendingStarts(events, i) :
              /\ j < k
              /\ events[j].ts # events[k].ts
              /\ timeline[EntryOf(events, i)].start = events[k].ts
    /\ Len(timeline) = 1

(***************************************************************************)
(* C12                                                                     *)
(***************************************************************************)

\* The test_end events of the same name before position i.
EarlierEnds(evs, i) ==
    {j \in Positions(evs, "test_end") : j < i /\ evs[j].name = evs[i].name}

\* C12: every test_end gives exactly one entry and consumes the pending start
\* of its name: a later test_end of the name with no test_start of the name
\* in between starts at its own ts, whatever start the earlier end was paired
\* with; a name with test_start events and no test_end has no entry.
C12_StartConsumedOnce ==
    Done =>
        /\ Len(timeline) = Cardinality(Positions(events, "test_end"))
        /\ \A i \in Positions(events, "test_end") :
              (/\ EarlierEnds(events, i) # {}
               /\ ~\E s \in Positions(events, "test_start") :
                     /\ events[s].name = events[i].name
                     /\ Max(EarlierEnds(events, i)) < s
                     /\ s < i)
                  => timeline[EntryOf(events, i)].start = events[i].ts
        /\ \A s \in Positions(events, "test_start") :
              (~\E i \in Positions(events, "test_end") : events[i].name = events[s].name)
                  => ~\E k \in 1..Len(timeline) : timeline[k].id = events[s].name

\* A start, its end, and a second end of the name at another ts than the
\* start: the second entry starts at the second end's own ts.
C12_Witness ==
    /\ Done
    /\ \E s \in Positions(events, "test_start") :
          \E i, j \in Positions(events, "test_end") :
              /\ s < i
              /\ i < j
              /\ events[s].name = events[i].name
              /\ events[i].name = events[j].name
              /\ events[s].ts # events[j].ts
              /\ timeline[EntryOf(events, i)].start = events[s].ts
              /\ timeline[EntryOf(events, j)].start = events[j].ts

(***************************************************************************)
(* C13                                                                     *)
(***************************************************************************)

\* The event list with tier_start / tier_end renamed to test_start / test_end.
RenameTier(evs) ==
    [i \in 1..Len(evs) |->
        [evs[i] EXCEPT !.type = IF @ = "tier_start" THEN "test_start"
                                ELSE IF @ = "tier_end" THEN "test_end" ELSE @]]

\* The tests field C13 expects for the tier_end at position i: that of the
\* start it is paired with, "?" when that start has none or when no start is
\* pending.
ExpectedTests(evs, i) ==
    LET pending == PendingStarts(RenameTier(evs), i)
    IN IF pending = {} THEN "?" ELSE Get(evs[Max(pending)], "tests", "?")

\* Start, end and tests of the tier records, against the timeline of the
\* renamed events.
TierPairingAsTimeline ==
    LET tl == build_test_timeline(RenameTier(events))
    IN /\ Len(tiers) = Len(tl)
       /\ \A i \in Positions(events, "tier_end") :
             LET k == Cardinality({j \in Positions(events, "tier_end") : j <= i})
             IN /\ tiers[k].name = tl[k].id
                /\ tiers[k].start = tl[k].start
                /\ tiers[k].end = tl[k].end
                /\ tiers[k].tests = ExpectedTests(events, i)

\* C13 as stated: start, end and duration of the tier records equal those of
\* the timeline built from the renamed events, a duration field on the end
\* event included, and tests is the paired start's tests field or "?".
C13_TierSameAsTimeline ==
    Done =>
        /\ TierPairingAsTimeline
        /\ \A k \in 1..Len(tiers) :
              tiers[k].duration = build_test_timeline(RenameTier(events))[k].duration.float

\* C13, amended: start, end and tests are as stated (same pairing: last start
\* wins, unmatched end starts at its own ts, a start is consumed once), but
\* the duration of a tier record is always end - start: build_tier_summary
\* does not read a duration field of the tier_end event, so it equals the
\* timeline's duration when the end event has no such field.
C13_TierSamePairingOwnDuration ==
    Done =>
        /\ TierPairingAsTimeline
        /\ \A i \in Positions(events, "tier_end") :
              LET k == Cardinality({j \in Positions(events, "tier_end") : j <= i})
              IN /\ tiers[k].duration = tiers[k].end - tiers[k].start
                 /\ "duration" \notin DOMAIN events[i] =>
                        tiers[k].duration
                            = build_test_timeline(RenameTier(events))[k].duration.float

\* Two pending starts of a tier, the second with a tests field, then its end
\* with a duration field that differs from the timestamp difference.
C13_Witness ==
    /\ Done
    /\ \E i \in Positions(events, "tier_end") :
          /\ Cardinality(PendingStarts(RenameTier(events), i)) = 2
          /\ "duration" \in DOMAIN events[i]
          /\ ExpectedTests(events, i) = "3"
          /\ tiers[1].tests = "3"
          /\ tiers[1].start # tiers[1].end
          /\ tiers[1].duration # events[i].duration

(***************************************************************************)
(* C14                                                                     *)
(***************************************************************************)

\* All start and end timestamps of the timeline.
AllTimes == {timeline[k].start : k \in 1..Len(timeline)}
            \cup {timeline[k].end : k \in 1..Len(timeline)}

\* C14: in a rendered report the window denominator t_range is at least 1
\* (it is 1 when all timestamps are equal, their spread otherwise), every
\* bar's left offset num/den lies in [0, 100], and every bar's width num/den
\* is at least 1/2, also for an entry of zero duration and for one whose
\* start is later than its end.
C14_GanttBarsInWindow ==
    (Done /\ html.kind = "report") =>
        \A k \in 1..Len(html.gantt.rows) :
            LET b == html.gantt.rows[k]
            IN /\ b.left.den >= 1
               /\ \A x, y \in AllTimes : b.left.den >= x - y
               /\ (\A x, y \in AllTimes : x = y) => b.left.den = 1
               /\ b.left.num >= 0
               /\ b.left.num <= 100 * b.left.den
               /\ b.width.den >= 1
               /\ 2 * b.width.num >= b.width.den
               /\ timeline[k].end <= timeline[k].start
                      => (b.width.num = 1 /\ b.width.den = 2)

\* An entry that starts after it ends, in a window wider than 200 units: its
\* bar is at 100 percent and has the floor width.
C14_Witness ==
    /\ Done
    /\ html.kind = "report"
    /\ \E k \in 1..Len(timeline) :
          /\ timeline[k].start > timeline[k].end
          /\ html.gantt.rows[k].left.num = 100 * html.gantt.rows[k].left.den
          /\ html.gantt.rows[k].left.den > 200
          /\ html.gantt.rows[k].width = [num |-> 1, den |-> 2]

\* An entry of a positive duration under 0.5 percent of the window: its bar
\* has the floor width.
C14_WitnessNearZero ==
    /\ Done
    /\ html.kind = "report"
    /\ \E k \in 1..Len(timeline) :
          /\ timeline[k].start < timeline[k].end
          /\ html.gantt.rows[k].width = [num |-> 1, den |-> 2]

\* A window of equal timestamps: the denominator is 1 and the bar is at 0.
C14_WitnessZeroWindow ==
    /\ Done
    /\ html.kind = "report"
    /\ Cardinality(AllTimes) = 1
    /\ html.gantt.rows[1].left = [num |-> 0, den |-> 1]
    /\ html.gantt.rows[1].width = [num |-> 1, den |-> 2]

====
